---- MODULE Spec2Model ----
(***************************************************************************)
(* A model of bs4_web_scraper: the request limiter (request_limiter.py),   *)
(* the fetcher BS4BaseScraper.get / _handle_response and the downloader    *)
(* BS4BaseScraper.download_url with its query-string cache (base.py).      *)
(*                                                                         *)
(* Every thread of the program is a worker.  A worker's position in the    *)
(* code is th[w].pc; one action is one step between two accesses to state  *)
(* that other threads can see (the limiter's counters, the cache           *)
(* url_query_params, the files on disk).  Python statements such as        *)
(* `self.no_of_available_request -= 1` are a read followed by a write and  *)
(* are modelled as two steps.                                              *)
(*                                                                         *)
(* Spec      the threads of a ThreadPoolExecutor, each calling get, as     *)
(*           find_all / find_all_tags do through make_soup_from_url.       *)
(* PoolSpec  the threads of a ThreadPoolExecutor, each calling             *)
(*           download_url as get_tag_rra / get_link_tag do.                *)
(* SeqSpec   one thread (the caller of scrape, of get or of download_url)  *)
(*           making its calls one after the other.                         *)
(* SessionSpec  the threads of a pool calling get on a session whose       *)
(*           credentials are set with set_auth_credentials: the origin     *)
(*           base_url, the auth URL and the login handshake.               *)
(* CrawlSpec _scrape: the start page, the pool of its resources, the pool  *)
(*           of its links for each level, and the writes of the markup.    *)
(*           A whole get or download_url is one step here.  Files are      *)
(*           placed and references rewritten with os.path as the code      *)
(*           uses it, with "\" between the names of a path.  A scraper     *)
(*           that has scraped can be asked to scrape again.                *)
(* ThreadsSpec  a scraper is constructed and _get_suitable_no_threads is   *)
(*           called for a number of items.                                 *)
(* FindSpec  one call of find_all_tags, find_all or find_links             *)
(*           (scraper.py) on a site whose pages answer or do not.          *)
(* JsonSpec  a FileHandler of a JSON file: write_to_file and update_json   *)
(*           (file_handler.py).                                            *)
(* InstancesSpec  the scraper instances of one process: the attributes     *)
(*           they take from the class, download_url, authenticate, reset.  *)
(* ResolveSpec  get_link_tag / get_tag_rra resolve the reference of an     *)
(*           element of a page to a URL (get_actual_url_from_rra).         *)
(* LevelSpec the executor of one level of _scrape: the slices of the links *)
(*           are submitted and the threads of the executor run them.       *)
(***************************************************************************)
EXTENDS Integers, Sequences, FiniteSets, TLC

\* ------------------------------------------------------------------ bounds
NumWorkers == 2        \* threads of the pool
MaxBudget == 2         \* budgets (no_of_requests_before_pause) are 1..MaxBudget
MaxRetriesCfg == 2     \* max_retries is 0..MaxRetriesCfg
MaxCalls == 2          \* calls of get / download_url started in one run
MaxDepth == 2          \* scrape_depth is 0..MaxDepth
MaxPause == 11         \* pause durations are MinPause..MaxPause, or "auto"
MaxItems == 12         \* item counts are 1..MaxItems
MaxCount == 3          \* `count` of the find_* operations is 1..MaxCount
NumInstances == 2      \* scraper instances in one process
MaxTasks == 3          \* <a> elements handed to the pool of one level
MaxScrapes == 2        \* calls of scrape on one scraper
MaxLevel == 2          \* levels that the calls of one scraper ask for in all

Workers == 1..NumWorkers
MainThread == 1

\* ------------------------------------------------------------ the inputs
StatusOK == 200
StatusForbidden == 403
StatusNotFound == 404
StatusTooMany == 429
Statuses == {StatusOK, StatusForbidden, StatusNotFound, StatusTooMany}
MinPause == 5          \* RequestLimitSetting.__setattr__: pause_duration >= 5
MaxRequestCount == 100 \* and max_request_count_per_second <= 100
MaxNoOfThreads == 10   \* BS4BaseScraper._max_no_of_threads
MinDefaultWorkers == 5 \* ThreadPoolExecutor(): min(32, cpu_count + 4) threads
NoResponse == 0        \* Python's None where a response is expected
NoFile == <<>>         \* Python's None where a FileHandler is expected

\* A host is the sequence of its labels: site, auth.site, evil.
SiteHost == <<"site">>
AuthHost == <<"auth", "site">>
EvilHost == <<"evil">>
Hosts == {SiteHost, AuthHost, EvilHost}
NoOrigin == <<>>       \* Python's None where a base URL / auth URL is expected
NoCredentials == <<>>  \* Python's None where the credentials are expected

Paths == {"a", "b"}
NoQuery == ""
Queries == {"q"}
\* A page or resource without a query string, and two resources that carry
\* the same query string, all of the site that is scraped.
Urls == {[host |-> SiteHost, path |-> "a", query |-> NoQuery],
         [host |-> SiteHost, path |-> "a", query |-> "q"],
         [host |-> SiteHost, path |-> "b", query |-> "q"]}
\* A page of the site and a resource of another site.
SessionUrls == {[host |-> SiteHost, path |-> "a", query |-> NoQuery],
                [host |-> EvilHost, path |-> "a", query |-> "q"]}
NoUrl == [host |-> NoOrigin, path |-> "", query |-> NoQuery]

\* A file of the mirror: the path of the URL and the unique id that
\* generate_unique_filename added to the name (0: none).
FileNames == Paths \X (0..MaxCalls)

\* ------------------------------------------------------- the scraped site
\* The value of an href / src attribute is the sequence of the parts that
\* its "/" separate, every part a sequence of labels: "/a" is
\* << <<>>, <<"a">> >> and "https://site/a" is
\* << <<"https:">>, <<>>, <<"site">>, <<"a">> >>.
Rel(p) == << <<>>, <<p>> >>
Abs(h, p) == << <<"https:">>, <<>>, h, <<p>> >>

\* The pages: the start page, a page it links to, and a page that one
\* links to.
Pages == {"root", "a", "b"}
StartUrl == [host |-> SiteHost, path |-> "root", query |-> NoQuery]

\* The <a> elements of the start page, in document order, and the elements
\* of a page that point to a resource (both pages use r).
LinkTags == << Rel("a"), Abs(SiteHost, "a"), Abs(EvilHost, "a") >>
\* The elements of a page that point to a resource: the start page has an
\* icon, <link rel="icon" type="image/png" href="/r">, and an image,
\* <img src="/s">, and an image of another site,
\* <img src="https://evil/s">; the other pages have an image,
\* <img src="/r">.
Elements(page) ==
  IF page = "root"
    THEN << [name |-> "link", attrs |-> {<<"rel", "icon">>, <<"type", "image/png">>},
             rra |-> Rel("r")],
            [name |-> "img", attrs |-> {}, rra |-> Rel("s")],
            [name |-> "img", attrs |-> {}, rra |-> Abs(EvilHost, "s")] >>
    ELSE << [name |-> "img", attrs |-> {}, rra |-> Rel("r")] >>

\* _scrapable_tags (lines 123-131), those that match an element of the site,
\* in their order: 'img', 'link|{"rel": "icon"}', 'link|{"type": "image/png"}'
ScrapableTags ==
  << [name |-> "img", attrs |-> {}],
     [name |-> "link", attrs |-> {<<"rel", "icon">>}],
     [name |-> "link", attrs |-> {<<"type", "image/png">>}] >>

\* soup.find_all(tag_name, attrs=attrs) (lines 835, 839): the elements of
\* the page with that name and those attributes, in document order
FindAllElements(page, filter) ==
  SelectSeq([i \in 1..Len(Elements(page)) |-> i],
            LAMBDA i : /\ Elements(page)[i].name = filter.name
                       /\ filter.attrs \subseteq Elements(page)[i].attrs)

\* lines 829-839: `tags` is extended with the matches of every scrapable tag
\* from the k-th on
RECURSIVE TagsFrom(_, _)
TagsFrom(page, k) ==
  IF k > Len(ScrapableTags) THEN <<>>
  ELSE FindAllElements(page, ScrapableTags[k]) \o TagsFrom(page, k + 1)

\* The tasks of the pool of line 845: the element each one is given
Tags(page) == TagsFrom(page, 1)

\* The attribute with the resource of the element of every task
ResourceTags(page) ==
  [i \in 1..Len(Tags(page)) |-> Elements(page)[Tags(page)[i]].rra]
Links == 1..Len(LinkTags)
\* The <a> elements of every page: a links to b, and b back to the start.
PageLinks(page) == IF page = "root" THEN LinkTags
                   ELSE IF page = "a" THEN << Rel("b") >>
                   ELSE << Rel("root") >>

\* Directories and files are the sequences of their names. The files are
\* kept under base_storage_dir; storage_path, relative to it, is where the
\* markup file of the start page goes.
BaseDir == <<"base">>
StoragePaths == {<<>>, <<"sub">>}
NoPath == <<>>

\* save_to_file line 652: the directory of the markup file of the start page
RootDir(storage_path) == BaseDir \o storage_path

\* A start path that leaves storage_path out.
LinkStartDirOfBase(storage_path) == BaseDir

\* get_link_tag line 953: `f'{self.base_storage_dir}\\{self.storage_path}'`
LinkStartDir(storage_path) == BaseDir \o storage_path

\* download_url lines 774 and 788 for a page (save_as = markup_filename) and
\* for a resource: <base>\<url path>\index.html and <base>\<name>
PageDir(page) == BaseDir \o <<page>>
PageFile(page) == PageDir(page) \o <<"index.html">>
ResourceFile(name) == BaseDir \o <<name>>

\* The names that two paths begin with in common
CommonLen(a, b) ==
  CHOOSE k \in 0..Len(a) :
    /\ k <= Len(b)
    /\ \A j \in 1..k : a[j] = b[j]
    /\ (k < Len(a) /\ k < Len(b)) => a[k + 1] # b[k + 1]

\* os.path.relpath(dest, start=start)
RelPath(dest, start) ==
  [i \in 1..(Len(start) - CommonLen(dest, start)) |-> ".."]
    \o SubSeq(dest, CommonLen(dest, start) + 1, Len(dest))

\* The file a relative reference names for a document of the directory dir
RECURSIVE JoinPath(_, _)
JoinPath(dir, rel) ==
  IF rel = <<>> THEN dir
  ELSE IF Head(rel) = "." THEN JoinPath(dir, Tail(rel))
  ELSE IF Head(rel) = ".."
         THEN JoinPath(SubSeq(dir, 1, Len(dir) - 1), Tail(rel))
  ELSE JoinPath(Append(dir, Head(rel)), Tail(rel))

\* _get_tag_rra lines 855-859: the src / href of a resource element, the
\* relative path from the directory of the markup file to the file, with
\* "./" before it unless it begins with "."
ResourceSrc(name, start) ==
  IF RelPath(ResourceFile(name), start)[1] = ".."
    THEN RelPath(ResourceFile(name), start)
    ELSE <<".">> \o RelPath(ResourceFile(name), start)

\* The markup file of the start page and the files of the resources
MarkupFile == <<"index", 0>>
CrawlFiles == {MarkupFile, <<"r", 0>>, <<"s", 0>>}
AllFiles == FileNames \cup CrawlFiles

VARIABLES
  budget,       \* RequestLimitSetting.max_request_count_per_second
  max_retries,  \* RequestLimitSetting.max_retries
  avail,        \* RequestLimitSetting.no_of_available_request
  retries,      \* RequestLimitSetting.no_of_available_retries
  paused,       \* RequestLimitSetting.requests_paused
  cache,        \* BS4BaseScraper.url_query_params: query -> FileHandler
  disk,         \* the files under base_storage_dir: absent, empty or data
  calls,        \* calls started so far (bounded by MaxCalls)
  window,       \* GETs sent since the limiter last began a pause (counted up
                \* to budget + 1)
  base_url,     \* BS4BaseScraper._base_url (the host of it)
  auth_url,     \* BS4BaseScraper._auth_url (the host of it)
  auth_credentials,  \* BS4BaseScraper._auth_credentials
  is_authenticated,  \* BS4BaseScraper._is_authenticated
  handshakes,   \* credentials POSTed to the auth URL so far (counted up to
                \* MaxCalls)
  raised,       \* the exception the last call of the API raised, if any
  cr,           \* the scraper and its running _scrape: pc, scrape_depth
                \* (requested and left), the levels this call has done,
                \* _level_reached and what it was when this call began
                \* (before), the calls of _scrape so far (scrapes),
                \* the size of a slice of link_tags, translate_to (set or
                \* not), storage_path and markup_filename, and the number
                \* of <a> elements of the start page (anchors)
  hrefs,        \* the href of every <a> element of `soup`
  srcs,         \* the src / href of every resource element of the start
                \* page once it is rewritten (NoPath before)
  rt,           \* the pool of get_associated_files_and_return_soup for the
                \* start page: per element, "todo" or "done"
  lt,           \* the pool of line 455: per <a> element the position of its
                \* get_link_tag, its result, the pool of its own page, the
                \* rewritten src of the element of that page, and how the
                \* last download_url for its target ended (fetch): "none",
                \* "skipped" (not internal), "kept" (file on disk), "ok",
                \* "stale" (get returned None) or "raised"
  pagefetch,    \* GETs sent per page
  serial,       \* writes of the patched document per page
  translated,   \* per page, whether the markup on disk was translated and
                \* in which state: "no", "raw" or "patched"
  pool,         \* a scraper and a call of its _get_suitable_no_threads:
                \*   budget, pause  the limiter's max_request_count_per_second
                \*                  and pause_duration
                \*   item_count, no_of_threads  argument and result
                \*   raised         the exception that ended the call, if any
  found,        \* a call of find_all_tags, find_all or find_links: op, url,
                \* depth, count, the pages that answer 200 (up), the size of
                \* the list returned, raised
  jf,           \* a JSON file and its FileHandler:
                \*   text, obj  the file holds a JSON text; the object in it
                \*   called     write_to_file or update_json has been called
                \*   plain      every dict given had string keys only and
                \*              every write mode was a text mode
                \*   expected   the last dict given to write_to_file, updated
                \*              with every dict given to update_json since
  inst,         \* the scraper instances of one process:
                \*   params    the url_query_params dicts (of the class and
                \*             of every instance): query -> the instance
                \*             whose download registered the FileHandler
                \*   own       the instance has a url_query_params of its own
                \*   session   the Session object the instance uses
                \*   cookies   per Session object, the instances logged in
                \*   base_url, is_authenticated   per instance
                \*   ret       per instance, whose FileHandler its last
                \*             download_url returned
  rs,           \* one resolution of a reference of a page:
                \*   pc, op    position, and the method that resolves
                \*   page      the path of the URL of the page
                \*   rra       the reference (href / src) as written
                \*   url       the URL returned
  lvl,          \* the pool of one level of _scrape (lines 452-455):
                \*   pc        position in the `with` block
                \*   next      the first link of the next slice
                \*   task      per link, its task: "none", "queued",
                \*             "running" or "done"
  th            \* per thread, the running call:
                \*   pc        position in the code
                \*   call      the entry point it was called at
                \*   url, ovw  the arguments url and overwrite
                \*   fname     download_url's filename / full_path
                \*   tmp       the value read by the running `-= 1`
                \*   resp      get's local `response` (a status code)
                \*   response  what get returned (NoResponse: None)
                \*   ret       what download_url returned (NoFile: None)
                \*   attempts  GETs sent by the running get
                \*   fullstart the running get began with every retry left
                \*   had     download_url found its file on disk (line 793)

limiter == <<budget, max_retries, avail, retries, paused>>
store == <<cache, disk>>
session == <<base_url, auth_url, auth_credentials, is_authenticated,
             handshakes, raised>>
auth == <<auth_url, auth_credentials, is_authenticated, handshakes, raised>>
crawl == <<cr, hrefs, srcs, rt, lt, pagefetch, serial, translated>>
others == <<pool, found, jf, inst, rs, lvl>>
core == <<limiter, store, calls, window, session, crawl, th>>
vars == <<limiter, store, calls, window, session, crawl, th, others>>

\* ------------------------------------------------- conditions of the code
\* requests.Response.ok (and Response.__bool__): no 4xx / 5xx status
Ok(s) == s < 400

\* A request_made that pauses only once the count is below zero.
ExhaustedBelowZero(n) == n < 0

\* request_made: `if self.no_of_available_request == 0`
Exhausted(n) == n = 0

\* A can_retry that allows one retry more.
CanRetryOffByOne(n) == n >= 0

\* RequestLimitSetting.can_retry
CanRetry(n) == n > 0

\* RequestLimitSetting.can_make_requests
CanMakeRequests == ~paused

\* _handle_response: `if response.status_code == 429`
IsRetryable(s) == s = StatusTooMany

\* A lookup that also wants the cached file to be the file of this URL.
CacheHitSamePath(u) ==
  u.query # NoQuery /\ cache[u.query] # NoFile /\ cache[u.query][1] = u.path

\* download_url 780: `has_query_params and url_obj.query in url_query_params`
CacheHit(u) == u.query # NoQuery /\ cache[u.query] # NoFile

\* download_url 776-778 and 786-789: the name the download is saved under
FileNameFor(u, uq, id) ==
  IF u.query # NoQuery /\ uq THEN <<u.path, id>> ELSE <<u.path, 0>>

\* os.path.exists(full_path)
Exists(f) == disk[f] # "absent"

\* get_base_url: scheme, host and port of the URL (the host stands for it)
Origin(u) == u.host

\* Python's `a in b` for two host names: a occurs in b as a substring
HostIn(a, b) ==
  \E i \in 1..(Len(b) + 1) :
     /\ i + Len(a) - 1 <= Len(b)
     /\ \A j \in 1..Len(a) : b[i + j - 1] = a[j]

\* get_actual_url_from_rra line 874:
\* `'/'.join([ i for i in rra.split('/') if i ])`
Normalize(rra) == SelectSeq(rra, LAMBDA part : part # <<>>)

IsScheme(part) == part \in {<<"http:">>, <<"https:">>}

\* urllib3's parse_url: the host (netloc) of a URL. After a scheme the host
\* is what follows "//"; a URL without a scheme that does not begin with
\* "/" is read as if "//" preceded it.
ParsedHost(rra) ==
  IF rra = <<>> THEN NoOrigin
  ELSE IF IsScheme(rra[1])
         THEN IF Len(rra) >= 3 /\ rra[2] = <<>> THEN rra[3] ELSE NoOrigin
  ELSE IF rra[1] = <<>>
         THEN IF Len(rra) >= 3 /\ rra[2] = <<>> THEN rra[3] ELSE NoOrigin
  ELSE rra[1]

\* get_actual_url_from_rra lines 872-880 and parse_url(actual_url) (line
\* 943): the host of the URL that an href is resolved to. An rra with a
\* scheme is used as normalized; any other is joined to base_url.
ActualHost(base, rra) ==
  IF Normalize(rra) # <<>> /\ IsScheme(Normalize(rra)[1])
    THEN ParsedHost(Normalize(rra))
    ELSE base

\* A test that takes every resolved URL for one of the site.
IsInternalAny(base, rra) == base # NoOrigin

\* get_link_tag line 947 (get_tag_rra line 916): only internal links are
\* downloaded.
IsInternal(base, rra) ==
  /\ base # NoOrigin
  /\ ActualHost(base, rra) # NoOrigin
  /\ HostIn(base, ActualHost(base, rra))

\* The parts of an href / src that urljoin keeps: the ".." that lead above
\* the root of the site are dropped.
Kept(rra) == SelectSeq(Normalize(rra), LAMBDA part : part # <<"..">>)

\* The page or resource an internal link leads to: the first name of the
\* path of its URL, after the scheme and the host when it has them.
TargetOf(rra) ==
  IF IsScheme(Kept(rra)[1]) THEN Kept(rra)[3][1] ELSE Kept(rra)[1][1]

\* A path as the value of an attribute, and back
ToRra(path) == [i \in 1..Len(path) |-> <<path[i]>>]
FromRra(rra) == [i \in 1..Len(rra) |-> rra[i][1]]

\* get_link_tag lines 953-956: the href is rewritten to the relative path
\* from the start path to the markup file of the mirrored page
PatchedHref(page, storage_path) ==
  ToRra(RelPath(PageFile(page), LinkStartDir(storage_path)))

\* download_url lines 743-789 for a page (save_as = markup_filename) or a
\* resource: the file it is saved to
FileOf(name) == <<name, 0>>

\* A loop that runs once more than scrape_depth says.
MoreLevelsInclusive(depth) == depth >= 0

\* _scrape line 448: `while True and scrape_depth > 0`
MoreLevels(depth) == depth > 0

\* slice_iterable (line 454) and the `results` that line 455 leaves behind:
\* the <a> elements of the last slice
LastSlice(size) ==
  {i \in Links : i > ((Len(LinkTags) - 1) \div size) * size}

\* get line 567: `not self.is_authenticated and (self.auth_credentials and
\* self.auth_url)`
NeedsAuth ==
  ~is_authenticated /\ auth_credentials # NoCredentials /\ auth_url # NoOrigin

\* ------------------------------------------------------------------- Init
\* RequestLimitSetting.__init__ (lines 56-60), for every configuration
LimiterInit ==
  /\ budget \in 1..MaxBudget
  /\ max_retries \in 0..MaxRetriesCfg
  /\ avail = budget
  /\ retries = max_retries
  /\ paused = FALSE

\* A thread that has not called anything yet.
Idle ==
  [pc |-> "idle", call |-> "none", url |-> NoUrl, ovw |-> FALSE,
   fname |-> NoFile, tmp |-> 0, resp |-> NoResponse, response |-> NoResponse,
   ret |-> NoFile, attempts |-> 0, fullstart |-> FALSE, had |-> FALSE]

WorkersInit ==
  /\ calls = 0
  /\ window = 0
  /\ th = [w \in Workers |-> Idle]

\* __init__ lines 134 and 152: markup_filename = "index.html"
DefaultMarkupFilename == "index.html"

\* No _scrape has been called.
CrawlInit ==
  /\ cr = [pc |-> "idle", requested |-> 0, depth |-> 0, level |-> 0, slice |-> 1,
           translate_to |-> FALSE, storage_path |-> <<>>,
           markup_filename |-> DefaultMarkupFilename, anchors |-> 0,
           level_reached |-> 0, before |-> 0, scrapes |-> 0]
  /\ hrefs = LinkTags
  /\ srcs = [e \in 1..Len(Elements("root")) |-> NoPath]
  /\ translated = [p \in Pages |-> "no"]
  /\ rt = [i \in 1..Len(ResourceTags("root")) |-> "todo"]
  /\ lt = [i \in Links |->
             [pc |-> "wait", result |-> "none", rt |-> "todo", src |-> NoPath,
              fetch |-> "none"]]
  /\ pagefetch = [p \in Pages |-> 0]
  /\ serial = [p \in Pages |-> 0]

\* No scraper of the other specifications has been constructed.
NoPool ==
  [pc |-> "none", budget |-> 0, pause |-> 0, item_count |-> 0,
   no_of_threads |-> 0, raised |-> "none"]

\* No find_* operation has been called.
NoFind ==
  [pc |-> "none", op |-> "none", url |-> "root", depth |-> 0, count |-> 0,
   up |-> {}, size |-> 0, raised |-> FALSE]

\* FileHandler(path) of a new file: the file is created empty (line 71).
NoJson ==
  [text |-> FALSE, obj |-> <<>>, called |-> FALSE, plain |-> TRUE,
   expected |-> <<>>]

Instances == 1..NumInstances
\* The object that a class attribute holds (url_query_params = {} at line
\* 119, _session = requests.Session() at line 117); the object that instance
\* i made for itself is i.
ClassLevel == 0
NoInstance == 0
SessionQueries == {"p", "q"}

\* The class attributes of BS4BaseScraper (lines 111-119) and instances
\* that have set none of their own yet: they share the dict
\* url_query_params and the Session of the class.
NoInstances ==
  [params |-> [o \in {ClassLevel} \cup Instances |->
                 [q \in SessionQueries |-> NoInstance]],
   own |-> [i \in Instances |-> FALSE],
   session |-> [i \in Instances |-> ClassLevel],
   cookies |-> [o \in {ClassLevel} \cup Instances |-> {}],
   base_url |-> [i \in Instances |-> NoOrigin],
   is_authenticated |-> [i \in Instances |-> FALSE],
   ret |-> [i \in Instances |-> NoInstance]]

\* No reference has been resolved.
NoResolve == [pc |-> "none", op |-> "none", page |-> <<>>, rra |-> <<>>, url |-> <<>>]

\* No pool of a level has been made.
NoLevel == [pc |-> "none", next |-> 1, task |-> [i \in 1..MaxTasks |-> "none"]]

OthersInit ==
  /\ pool = NoPool
  /\ found = NoFind
  /\ jf = NoJson
  /\ inst = NoInstances
  /\ rs = NoResolve
  /\ lvl = NoLevel

\* The class attributes of BS4BaseScraper (lines 111-114)
SessionInit ==
  /\ base_url = NoOrigin
  /\ auth_url = NoOrigin
  /\ auth_credentials = NoCredentials
  /\ is_authenticated = FALSE
  /\ handshakes = 0
  /\ raised = "none"

\* A session starts with an empty url_query_params; base_storage_dir is
\* empty or holds files of an earlier run (under their URL-based names).
Init ==
  /\ LimiterInit
  /\ WorkersInit
  /\ SessionInit
  /\ CrawlInit
  /\ OthersInit
  /\ cache = [q \in Queries |-> NoFile]
  /\ disk \in [FileNames -> {"absent", "data"}]
  /\ \A f \in FileNames : f[2] # 0 => disk[f] = "absent"

\* The same, into an empty base_storage_dir.
FreshInit ==
  /\ LimiterInit
  /\ WorkersInit
  /\ SessionInit
  /\ CrawlInit
  /\ OthersInit
  /\ cache = [q \in Queries |-> NoFile]
  /\ disk = [f \in FileNames |-> "absent"]

\* ------------------------------------------------------- entering a call
CanBegin(w) == th[w].pc \in {"idle", "done"} /\ calls < MaxCalls

\* get begins (lines 551-568): no GET sent by this call yet; with
\* credentials set and the session not authenticated it authenticates first.
EnterGet(t) ==
  [t EXCEPT !.pc = IF NeedsAuth THEN "au_get" ELSE "g_check", !.attempts = 0,
            !.fullstart = (retries = max_retries)]

\* get called again by itself (lines 584, 589): lines 560-568 run again.
ReEnterGet(t) == [t EXCEPT !.pc = IF NeedsAuth THEN "au_get" ELSE "g_check"]

\* get(url) called by the thread itself (as _scrape and make_soup_from_url do)
GetEnter(w, u) ==
  /\ CanBegin(w)
  /\ calls' = calls + 1
  /\ th' = [th EXCEPT ![w] = EnterGet([Idle EXCEPT !.call = "get", !.url = u])]
  /\ base_url' = Origin(u)
  /\ UNCHANGED <<others, crawl, auth, limiter, store, window>>

\* download_url lines 737-782: the arguments, set_base_url, the file name,
\* and the first look into url_query_params (a hit returns the cached
\* FileHandler).
DownloadUrlEnter(w, u, uq, ow) ==
  /\ CanBegin(w)
  /\ calls' = calls + 1
  /\ th' = [th EXCEPT ![w] =
              [Idle EXCEPT !.call = "download_url", !.url = u, !.ovw = ow,
                           !.fname = FileNameFor(u, uq, calls + 1),
                           !.pc = IF CacheHit(u) THEN "done" ELSE "dl_recheck",
                           !.ret = IF CacheHit(u) THEN cache[u.query]
                                   ELSE NoFile]]
  /\ base_url' = Origin(u)
  /\ UNCHANGED <<others, crawl, auth, limiter, store, window>>

\* download_url line 784: the second look into url_query_params. Another
\* thread may have registered the query since line 780: the block is skipped,
\* `response` stays None and line 809 returns None.
DownloadUrlRecheck(w) ==
  /\ th[w].pc = "dl_recheck"
  /\ th' = [th EXCEPT ![w].pc = IF CacheHit(th[w].url) THEN "done"
                                ELSE "dl_exists"]
  /\ UNCHANGED <<others, crawl, session, limiter, store, calls, window>>

\* A download_url that keeps a file that is on disk whatever overwrite says.
DownloadUrlExistsKeepsFile(w) ==
  /\ th[w].pc = "dl_exists"
  /\ IF Exists(th[w].fname)
       THEN /\ th' = [th EXCEPT ![w].pc = "done", ![w].ret = th[w].fname,
                                ![w].had = TRUE]
            /\ UNCHANGED <<disk, base_url>>
       ELSE /\ th' = [th EXCEPT ![w] =
                       [EnterGet(th[w]) EXCEPT !.had = Exists(th[w].fname)]]
            /\ disk' = [disk EXCEPT ![th[w].fname] = "absent"]
            /\ base_url' = Origin(th[w].url)
  /\ UNCHANGED <<others, crawl, auth, limiter, cache, calls, window>>

\* download_url lines 785-802: fetch when the file is not on disk, or when it
\* is and overwrite is set (the file is deleted first); otherwise return a
\* FileHandler of the existing file.
DownloadUrlExists(w) ==
  /\ th[w].pc = "dl_exists"
  /\ IF Exists(th[w].fname) /\ ~th[w].ovw
       THEN /\ th' = [th EXCEPT ![w].pc = "done", ![w].ret = th[w].fname,
                                ![w].had = TRUE]
            /\ UNCHANGED <<disk, base_url>>
       ELSE /\ th' = [th EXCEPT ![w] =
                       [EnterGet(th[w]) EXCEPT !.had = Exists(th[w].fname)]]
            /\ disk' = [disk EXCEPT ![th[w].fname] = "absent"]
            /\ base_url' = Origin(th[w].url)
  /\ UNCHANGED <<others, crawl, auth, limiter, cache, calls, window>>

\* --------------------------------------------------------------- get(url)
\* get returns `r` (a status, or NoResponse for None) to its caller: to the
\* thread itself, or to download_url line 794 / 800, whose `if response:`
\* (line 804) saves an OK response and returns None otherwise.
GetReturns(t, r) ==
  [t EXCEPT !.response = r, !.resp = NoResponse, !.tmp = 0, !.attempts = 0,
            !.fullstart = FALSE,
            !.pc = IF t.call = "download_url" /\ r # NoResponse /\ Ok(r)
                     THEN "dl_save" ELSE "done"]

\* A _handle_response that takes every response for an OK one.
HandleResponseAnyStatus(t) == GetReturns(t, t.resp)

\* _handle_response up to its first access to the limiter: an OK response is
\* returned by get; any other goes on to got_response_error.
HandleResponse(t) ==
  IF Ok(t.resp) THEN GetReturns(t, t.resp) ELSE [t EXCEPT !.pc = "er_load"]

\* get line 577: `if self.request_limit_setting.can_make_requests is True`;
\* otherwise line 588 sleeps and calls get again.
GetCheck(w) ==
  /\ th[w].pc = "g_check"
  /\ IF CanMakeRequests
       THEN th' = [th EXCEPT ![w].pc = "g_send"] /\ UNCHANGED base_url
       ELSE th' = [th EXCEPT ![w] = ReEnterGet(@)]
              /\ base_url' = Origin(th[w].url)
  /\ UNCHANGED <<others, crawl, auth, limiter, store, calls, window>>

\* get line 578: `response = self.session.get(url)`; the server answers `s`.
GetSend(w, s) ==
  /\ th[w].pc = "g_send"
  /\ th' = [th EXCEPT ![w].pc = "rm_load", ![w].resp = s,
                      ![w].attempts = @ + 1]
  /\ window' = IF window > budget THEN window ELSE window + 1
  /\ UNCHANGED <<others, crawl, session, limiter, store, calls>>

\* request_made line 75, the read of `self.no_of_available_request -= 1`
RequestMadeLoad(w) ==
  /\ th[w].pc = "rm_load"
  /\ th' = [th EXCEPT ![w].pc = "rm_store", ![w].tmp = avail]
  /\ UNCHANGED <<others, crawl, session, limiter, store, calls, window>>

\* request_made line 75, the write of `self.no_of_available_request -= 1`
RequestMadeStore(w) ==
  /\ th[w].pc = "rm_store"
  /\ avail' = th[w].tmp - 1
  /\ th' = [th EXCEPT ![w].pc = "rm_cmp", ![w].tmp = 0]
  /\ UNCHANGED <<others, crawl, session, budget, max_retries, retries, paused, store, calls, window>>

\* request_made line 76: pause when the count is used up; otherwise get goes
\* on to _handle_response (line 580).
RequestMadeCompare(w) ==
  /\ th[w].pc = "rm_cmp"
  /\ th' = [th EXCEPT ![w] = IF Exhausted(avail) THEN [@ EXCEPT !.pc = "p_begin"]
                             ELSE HandleResponse(@)]
  /\ UNCHANGED <<others, crawl, session, limiter, store, calls, window>>

\* pause line 128: `self.requests_paused = True`, then time.sleep
PauseBegin(w) ==
  /\ th[w].pc = "p_begin"
  /\ paused' = TRUE
  /\ window' = 0
  /\ th' = [th EXCEPT ![w].pc = "p_sleep"]
  /\ UNCHANGED <<others, crawl, session, budget, max_retries, avail, retries, store, calls>>

\* pause line 134: the sleep is over, `self.requests_paused = False`
PauseEnd(w) ==
  /\ th[w].pc = "p_sleep"
  /\ paused' = FALSE
  /\ th' = [th EXCEPT ![w].pc = "rm_reset"]
  /\ UNCHANGED <<others, crawl, session, budget, max_retries, avail, retries, store, calls, window>>

\* request_made line 78: the count is reset, then _handle_response
RequestMadeReset(w) ==
  /\ th[w].pc = "rm_reset"
  /\ avail' = budget
  /\ th' = [th EXCEPT ![w] = HandleResponse(@)]
  /\ UNCHANGED <<others, crawl, session, budget, max_retries, retries, paused, store, calls, window>>

\* got_response_error line 106, the read of `self.no_of_available_retries -= 1`
GotResponseErrorLoad(w) ==
  /\ th[w].pc = "er_load"
  /\ th' = [th EXCEPT ![w].pc = "er_store", ![w].tmp = retries]
  /\ UNCHANGED <<others, crawl, session, limiter, store, calls, window>>

\* got_response_error line 106, the write; then _handle_response line 606:
\* a status other than 429 makes it return None, and get with it.
GotResponseErrorStore(w) ==
  /\ th[w].pc = "er_store"
  /\ retries' = th[w].tmp - 1
  /\ th' = [th EXCEPT ![w] = IF IsRetryable(@.resp)
                               THEN [@ EXCEPT !.pc = "hr_retry", !.tmp = 0]
                               ELSE GetReturns(@, NoResponse)]
  /\ UNCHANGED <<others, crawl, session, budget, max_retries, avail, paused, store, calls, window>>

\* _handle_response line 607: with a retry left it returns False, and get
\* (lines 582-584) sleeps and calls itself again; otherwise the request is
\* stale.
HandleRetry(w) ==
  /\ th[w].pc = "hr_retry"
  /\ IF CanRetry(retries)
       THEN th' = [th EXCEPT ![w] = ReEnterGet(@)]
              /\ base_url' = Origin(th[w].url)
       ELSE th' = [th EXCEPT ![w].pc = "hr_reset"] /\ UNCHANGED base_url
  /\ UNCHANGED <<others, crawl, auth, limiter, store, calls, window>>

\* _handle_response lines 611-613: reset_max_retry, return None
ResetMaxRetry(w) ==
  /\ th[w].pc = "hr_reset"
  /\ retries' = max_retries
  /\ th' = [th EXCEPT ![w] = GetReturns(@, NoResponse)]
  /\ UNCHANGED <<others, crawl, session, budget, max_retries, avail, paused, store, calls, window>>

\* ------------------------------------------ download_url, after the fetch
\* save_to_file line 654: FileHandler(file_path) creates the file when it
\* is not there.
SaveCreate(w) ==
  /\ th[w].pc = "dl_save"
  /\ disk' = [disk EXCEPT ![th[w].fname] = IF @ = "absent" THEN "empty" ELSE @]
  /\ th' = [th EXCEPT ![w].pc = "dl_write"]
  /\ UNCHANGED <<others, crawl, session, limiter, cache, calls, window>>

\* save_to_file line 660: write_to_file(content, "wb"); download_url line
\* 806: without a query string the FileHandler is returned (line 808).
SaveWrite(w) ==
  /\ th[w].pc = "dl_write"
  /\ disk' = [disk EXCEPT ![th[w].fname] = "data"]
  /\ th' = [th EXCEPT ![w] = IF @.url.query # NoQuery
                               THEN [@ EXCEPT !.pc = "dl_register"]
                               ELSE [@ EXCEPT !.pc = "done", !.ret = th[w].fname]]
  /\ UNCHANGED <<others, crawl, session, limiter, cache, calls, window>>

\* download_url lines 806-808: `self.url_query_params[query] = file_hdl`
CacheRegister(w) ==
  /\ th[w].pc = "dl_register"
  /\ cache' = [cache EXCEPT ![th[w].url.query] = th[w].fname]
  /\ th' = [th EXCEPT ![w].pc = "done", ![w].ret = th[w].fname]
  /\ UNCHANGED <<others, crawl, session, limiter, disk, calls, window>>

\* ------------------------------------------------- the session's settings
\* authenticate line 539: `resp = self.session.get(url=self.auth_url, ...)`
\* and line 541, the csrf token of the answer
AuthenticateGet(w) ==
  /\ th[w].pc = "au_get"
  /\ th' = [th EXCEPT ![w].pc = "au_post"]
  /\ UNCHANGED <<others, crawl, session, limiter, store, calls, window>>

\* authenticate lines 542-543: the credentials are POSTed and
\* `self._is_authenticated = resp.ok`; get goes on to line 570.
AuthenticatePost(w, ok) ==
  /\ th[w].pc = "au_post"
  /\ is_authenticated' = ok
  /\ handshakes' = IF handshakes < MaxCalls THEN handshakes + 1 ELSE handshakes
  /\ th' = [th EXCEPT ![w].pc = "g_check"]
  /\ UNCHANGED <<others, crawl, base_url, auth_url, auth_credentials, raised, limiter, store,
                 calls, window>>

\* set_auth_credentials(credentials) with credentials whose auth_url has the
\* host h (NoOrigin: no host): set_base_url(auth_url) (line 331) comes
\* first, then _validate_auth_credentials compares the host of base_url
\* with the host of auth_url (line 319).
SetAuthCredentials(w, h) ==
  /\ CanBegin(w)
  /\ calls' = calls + 1
  /\ IF h = NoOrigin
       THEN /\ raised' = "InvalidURLError"
            /\ UNCHANGED <<base_url, auth_url, auth_credentials>>
       ELSE /\ base_url' = h
            /\ IF ~HostIn(base_url', h)
                 THEN /\ raised' = "InvalidURLError"
                      /\ UNCHANGED <<auth_url, auth_credentials>>
                 ELSE /\ raised' = "none"
                      /\ auth_url' = h
                      /\ auth_credentials' = <<h>>
  /\ th' = [th EXCEPT ![w] = [Idle EXCEPT !.call = "set_auth_credentials",
                                          !.pc = "done"]]
  /\ UNCHANGED <<others, crawl, is_authenticated, handshakes, limiter, store, window>>

\* ---------------------------------------------------------------- _scrape
\* In _scrape every get and every download_url is one step: the call run to
\* its end by its thread, the server answering s (200 or 404) or the GET
\* raising because there is no connection (NoResponse). The steps inside
\* get, and how they interleave, are those of Spec and PoolSpec.
CrawlStatuses == {StatusOK, StatusNotFound, NoResponse}
SliceSizes == {1, Len(LinkTags)}

\* session.get (line 578) returns a response
Answered(s) == s # NoResponse

\* get lines 577-590 run alone: request_made (with its pause, when the count
\* is used up) and _handle_response; a GET that raises leaves get at once.
LimiterAfterGet(s) ==
  IF Answered(s)
    THEN /\ avail' = IF Exhausted(avail - 1) THEN budget ELSE avail - 1
         /\ window' = IF Exhausted(avail - 1) THEN 0
                      ELSE IF window > budget THEN window ELSE window + 1
         /\ retries' = IF Ok(s) THEN retries ELSE retries - 1
         /\ UNCHANGED <<budget, max_retries, paused>>
    ELSE UNCHANGED <<limiter, window>>

\* download_url lines 784-809 run alone for a URL without a query string:
\* a file that is there is kept, any other is fetched and, with an OK
\* response, saved.
DownloadWhole(name, s) ==
  IF Exists(FileOf(name))
    THEN UNCHANGED <<limiter, window, disk>>
    ELSE /\ LimiterAfterGet(s)
         /\ disk' = IF Answered(s) /\ Ok(s)
                      THEN [disk EXCEPT ![FileOf(name)] = "data"] ELSE disk

\* download_url returns a FileHandler
Downloads(name, s) == Exists(FileOf(name)) \/ (Answered(s) /\ Ok(s))

\* download_url ends with the exception of its GET
DownloadRaises(name, s) == ~Exists(FileOf(name)) /\ ~Answered(s)

\* save_to_file lines 657-658: the content is translated when `translate`
\* is set, a target language is configured and the file is a markup file.
\* The state of the markup of a page after a write of it: `patched` tells
\* whether the content written has its attributes rewritten.
Translated(was, translate, translate_to, patched) ==
  IF translate /\ translate_to
    THEN IF patched THEN "patched" ELSE "raw"
    ELSE was

\* A pool that is left as soon as one task has ended.
JoinedAny(tasks) == \E i \in DOMAIN tasks : tasks[i] = "done"

\* The pool of a page has joined: every task has ended.
Joined(tasks) == \A i \in DOMAIN tasks : tasks[i] = "done"

\* A counter that is stepped for every <a> element of the level.
LevelReachedPerLink(level_reached) == level_reached + Len(LinkTags)

\* line 461: `self._level_reached += 1`
LevelReachedAfter(level_reached) == level_reached + 1

\* _scrape(url, scrape_depth, translate_to=...) lines 415-438 of a scraper
\* made with a storage_path and a limiter (the slice size stands for it),
\* for a start page with n <a> elements: a target language is kept once it
\* is set (line 428), the first call of the session sets base_url (lines
\* 430-431). A scraper that has scraped is called again with the settings
\* it has, for the same page, while the levels reached and asked for stay
\* within MaxLevel.
ScrapeBegin(d, k, tr, sp, n) ==
  /\ \/ cr.pc = "idle"
     \/ /\ cr.pc \in {"done", "failed"}
        /\ cr.scrapes < MaxScrapes
        /\ cr.level_reached + d <= MaxLevel
        /\ k = cr.slice /\ sp = cr.storage_path /\ n = cr.anchors
  /\ cr' = [cr EXCEPT !.pc = "s_get", !.requested = d, !.depth = d, !.level = 0,
                      !.slice = k, !.translate_to = tr \/ @, !.storage_path = sp,
                      !.anchors = n, !.scrapes = @ + 1,
                      !.before = cr.level_reached]
  /\ base_url' = IF cr.level_reached = 0 THEN Origin(StartUrl) ELSE base_url
  /\ raised' = "none"
  /\ hrefs' = LinkTags
  /\ srcs' = [e \in DOMAIN srcs |-> NoPath]
  /\ rt' = [i \in DOMAIN rt |-> "todo"]
  /\ lt' = [i \in Links |->
              [pc |-> "wait", result |-> "none", rt |-> "todo", src |-> NoPath,
               fetch |-> "none"]]
  /\ pagefetch' = [p \in Pages |-> 0]
  /\ serial' = [p \in Pages |-> 0]
  /\ UNCHANGED <<others, auth_url, auth_credentials, is_authenticated,
                 handshakes, limiter, store, calls, window, th, translated>>

\* lines 439-443: the start page is fetched; without a response _scrape
\* raises.
ScrapeGet(s) ==
  /\ cr.pc = "s_get"
  /\ LimiterAfterGet(s)
  /\ base_url' = Origin(StartUrl)
  /\ pagefetch' = [pagefetch EXCEPT !["root"] = @ + 1]
  /\ cr' = [cr EXCEPT !.pc = IF Answered(s) /\ Ok(s) THEN "s_store" ELSE "failed"]
  /\ raised' = IF ~Answered(s) THEN "ConnectionError"
               ELSE IF Ok(s) THEN raised ELSE "Exception"
  /\ UNCHANGED <<others, auth_url, auth_credentials, is_authenticated,
                 handshakes, store, calls, th, hrefs, srcs, rt, lt, serial,
                 translated>>

\* line 441: the response is saved as the markup file, translated if a
\* target language is set; lines 827-845: the elements with a resource are
\* handed to a pool.
ScrapeStore ==
  /\ cr.pc = "s_store"
  /\ disk' = [disk EXCEPT ![MarkupFile] = "data"]
  /\ translated' = [translated EXCEPT
        !["root"] = Translated("no", TRUE, cr.translate_to, FALSE)]
  /\ rt' = [i \in DOMAIN rt |-> "todo"]
  /\ cr' = [cr EXCEPT !.pc = "s_res"]
  /\ UNCHANGED <<others, session, limiter, cache, calls, window, th, hrefs,
                 srcs, lt, pagefetch, serial>>

\* _get_tag_rra / get_tag_rra for one task of the pool of the start page:
\* with a FileHandler the attribute of the element is rewritten; an
\* exception of the task stays in the pool.
RootResource(i, s) ==
  /\ cr.pc = "s_res"
  /\ rt[i] = "todo"
  /\ IF IsInternal(base_url, ResourceTags("root")[i])
       THEN /\ DownloadWhole(TargetOf(ResourceTags("root")[i]), s)
            /\ srcs' = IF Downloads(TargetOf(ResourceTags("root")[i]), s)
                 THEN [srcs EXCEPT ![Tags("root")[i]] =
                         ResourceSrc(TargetOf(ResourceTags("root")[i]),
                                     RootDir(cr.storage_path))]
                 ELSE srcs
       ELSE UNCHANGED <<limiter, window, disk, srcs>>
  /\ rt' = [rt EXCEPT ![i] = "done"]
  /\ UNCHANGED <<others, session, cache, calls, th, cr, hrefs, lt, pagefetch,
                 serial, translated>>

\* lines 844-846, the pool is left, and line 446: the patched markup is
\* written with translate=False; line 448 decides on the first level.
ScrapeSerialize ==
  /\ cr.pc = "s_res"
  /\ Joined(rt)
  /\ serial' = [serial EXCEPT !["root"] = @ + 1]
  /\ disk' = [disk EXCEPT ![MarkupFile] = "data"]
  /\ translated' = [translated EXCEPT
        !["root"] = Translated(@, FALSE, cr.translate_to, TRUE)]
  /\ cr' = [cr EXCEPT !.pc = IF MoreLevels(cr.depth) THEN "s_links" ELSE "done"]
  /\ UNCHANGED <<others, session, limiter, cache, calls, window, th, hrefs,
                 srcs, rt, lt, pagefetch>>

\* _get_suitable_no_threads lines 356-357: `if item_count <= 0: raise
\* ValueError`
NoItems(item_count) == item_count <= 0

\* lines 450-455: the <a> elements of `soup` are handed to a pool; for a
\* page without one, _get_suitable_no_threads(0) raises and _scrape ends
\* with its ValueError.
LinksDispatch ==
  /\ cr.pc = "s_links"
  /\ IF NoItems(cr.anchors)
       THEN /\ raised' = "ValueError"
            /\ cr' = [cr EXCEPT !.pc = "failed"]
            /\ lt' = lt
       ELSE /\ raised' = raised
            /\ cr' = [cr EXCEPT !.pc = "s_join"]
            /\ lt' = [i \in Links |->
                        [pc |-> "todo", result |-> "none", rt |-> "todo",
                         src |-> NoPath, fetch |-> lt[i].fetch]]
  /\ UNCHANGED <<others, base_url, auth_url, auth_credentials, is_authenticated,
                 handshakes, limiter, store, calls, window, th, hrefs,
                 srcs, rt, pagefetch, serial, translated>>

\* get_link_tag lines 940-956: the href is resolved; a link that is not
\* internal gives its URL; an internal one is downloaded (the page is saved
\* by save_to_file, line 805, translated if a target language is set) and,
\* with a FileHandler, patched. An exception of the GET ends the task.
LinkDownload(i, s) ==
  /\ cr.pc = "s_join"
  /\ lt[i].pc = "todo"
  /\ IF ~IsInternal(base_url, hrefs[i])
       THEN /\ lt' = [lt EXCEPT ![i] = [@ EXCEPT !.pc = "done", !.result = "url",
                                                   !.fetch = "skipped"]]
            /\ UNCHANGED <<limiter, window, disk, hrefs, pagefetch, translated>>
       ELSE /\ DownloadWhole(TargetOf(hrefs[i]), s)
            /\ pagefetch' = IF Exists(FileOf(TargetOf(hrefs[i]))) THEN pagefetch
                            ELSE [pagefetch EXCEPT ![TargetOf(hrefs[i])] = @ + 1]
            /\ translated' =
                 IF ~Exists(FileOf(TargetOf(hrefs[i]))) /\ Answered(s) /\ Ok(s)
                   THEN [translated EXCEPT ![TargetOf(hrefs[i])] =
                           Translated(@, TRUE, cr.translate_to, FALSE)]
                   ELSE translated
            /\ IF Downloads(TargetOf(hrefs[i]), s)
                 THEN /\ hrefs' = [hrefs EXCEPT ![i] =
                             PatchedHref(TargetOf(@), cr.storage_path)]
                      /\ lt' = [lt EXCEPT ![i] = [@ EXCEPT
                            !.pc = "res",
                            !.fetch = IF Exists(FileOf(TargetOf(hrefs[i])))
                                        THEN "kept" ELSE "ok"]]
                 ELSE /\ hrefs' = hrefs
                      /\ lt' = [lt EXCEPT ![i] = [@ EXCEPT
                            !.pc = "done",
                            !.result = IF DownloadRaises(TargetOf(hrefs[i]), s)
                                         THEN "exception" ELSE "none",
                            !.fetch = IF DownloadRaises(TargetOf(hrefs[i]), s)
                                        THEN "raised" ELSE "stale"]]
  /\ UNCHANGED <<others, session, cache, calls, th, cr, srcs, rt, serial>>

\* get_link_tag line 958: get_associated_files_and_return_soup for the
\* downloaded page, the task of its one element
LinkResource(i, s) ==
  /\ lt[i].pc = "res"
  /\ lt[i].rt = "todo"
  /\ IF IsInternal(base_url, ResourceTags(TargetOf(hrefs[i]))[1])
       THEN /\ DownloadWhole(TargetOf(ResourceTags(TargetOf(hrefs[i]))[1]), s)
            /\ lt' = [lt EXCEPT ![i] = [@ EXCEPT
                  !.rt = "done",
                  !.src = IF Downloads(TargetOf(ResourceTags(TargetOf(hrefs[i]))[1]), s)
                            THEN ResourceSrc(
                                   TargetOf(ResourceTags(TargetOf(hrefs[i]))[1]),
                                   PageDir(TargetOf(hrefs[i])))
                            ELSE @]]
       ELSE /\ UNCHANGED <<limiter, window, disk>>
            /\ lt' = [lt EXCEPT ![i] = [@ EXCEPT !.rt = "done"]]
  /\ UNCHANGED <<others, session, cache, calls, th, cr, hrefs, srcs, rt,
                 pagefetch, serial, translated>>

\* get_link_tag lines 958-961: the pool of the page is left and the patched
\* markup of the page is written with translate=False.
LinkSerialize(i) ==
  /\ lt[i].pc = "res"
  /\ Joined(<<lt[i].rt>>)
  /\ serial' = [serial EXCEPT ![TargetOf(hrefs[i])] = @ + 1]
  /\ disk' = [disk EXCEPT ![FileOf(TargetOf(hrefs[i]))] = "data"]
  /\ translated' = [translated EXCEPT
        ![TargetOf(hrefs[i])] = Translated(@, FALSE, cr.translate_to, TRUE)]
  /\ lt' = [lt EXCEPT ![i] = [@ EXCEPT !.pc = "done", !.result = "file"]]
  /\ UNCHANGED <<others, session, limiter, cache, calls, window, th, cr, hrefs,
                 srcs, rt, pagefetch>>

\* lines 456-464: the pool of the level is left, the markup of `soup` is
\* written again with translate=False, scrape_depth and _level_reached are
\* stepped.
ScrapeSave ==
  /\ cr.pc = "s_join"
  /\ Joined([i \in Links |-> lt[i].pc])
  /\ serial' = [serial EXCEPT !["root"] = @ + 1]
  /\ disk' = [disk EXCEPT ![MarkupFile] = "data"]
  /\ translated' = [translated EXCEPT
        !["root"] = Translated(@, FALSE, cr.translate_to, TRUE)]
  /\ cr' = [cr EXCEPT !.depth = @ - 1, !.level = @ + 1,
                      !.level_reached = LevelReachedAfter(@),
                      !.pc = IF cr.depth - 1 > 0 THEN "s_results"
                             ELSE IF MoreLevels(cr.depth - 1) THEN "s_links"
                             ELSE "done"]
  /\ UNCHANGED <<others, session, limiter, cache, calls, window, th, hrefs,
                 srcs, rt, lt, pagefetch>>

\* A filter that takes a FileHandler for a sequence of true values.
FilterResultKeepsFiles(r) ==
  IF r = "exception" THEN "ConnectionError"
  ELSE IF r = "file" THEN "kept"
  ELSE "skipped"

\* line 466, one result of the pool as `filter` meets it: the result of a
\* task that raised raises its exception again; for a FileHandler
\* `all(result)` raises TypeError, as a FileHandler cannot be iterated; a
\* str or None is left out.
FilterResult(r) ==
  IF r = "exception" THEN "ConnectionError"
  ELSE IF r = "file" THEN "TypeError"
  ELSE "skipped"

\* The results of the last slice that end the iteration of line 466: a
\* task that raised, and a FileHandler
Stops(i) == FilterResult(lt[i].result) \notin {"skipped", "kept"}

\* lines 466-471 from the i-th result on: the exception that ends the loop,
\* if any, and storage_path, which the body of the loop sets to the
\* filepath of every FileHandler that the filter lets through (line 470).
RECURSIVE ResultsFrom(_, _)
ResultsFrom(i, sp) ==
  IF i > Len(LinkTags) THEN [raised |-> "none", storage_path |-> sp]
  ELSE IF i \notin LastSlice(cr.slice) THEN ResultsFrom(i + 1, sp)
  ELSE IF FilterResult(lt[i].result) = "skipped" THEN ResultsFrom(i + 1, sp)
  ELSE IF FilterResult(lt[i].result) = "kept"
         THEN ResultsFrom(i + 1, PageFile(TargetOf(hrefs[i])))
  ELSE [raised |-> FilterResult(lt[i].result), storage_path |-> sp]

\* lines 465-472: the results of the last slice are iterated in their order
\* and filtered with `isinstance(result, FileHandler) and all(result)`.
\* Without an exception `soup` stays what it is (the body of the loop, which
\* would replace it, is not modelled beyond lines 470-471: markup_filename
\* is set to the filename of the FileHandler, the one it was saved as).
ScrapeResults ==
  /\ cr.pc = "s_results"
  /\ IF ResultsFrom(1, cr.storage_path).raised # "none"
       THEN /\ raised' = ResultsFrom(1, cr.storage_path).raised
            /\ cr' = [cr EXCEPT !.pc = "failed"]
       ELSE /\ raised' = raised
            /\ cr' = [cr EXCEPT
                  !.pc = IF MoreLevels(cr.depth) THEN "s_links" ELSE "done",
                  !.storage_path = ResultsFrom(1, cr.storage_path).storage_path]
  /\ UNCHANGED <<others, base_url, auth_url, auth_credentials, is_authenticated,
                 handshakes, limiter, store, calls, window, th, hrefs, srcs,
                 rt, lt, pagefetch, serial, translated>>

\* ------------------------------------------------------ the specifications
\* One step of get, request_made, pause or _handle_response.
GetStep(w) ==
  \/ GetCheck(w)
  \/ \E s \in Statuses : GetSend(w, s)
  \/ RequestMadeLoad(w)
  \/ RequestMadeStore(w)
  \/ RequestMadeCompare(w)
  \/ PauseBegin(w)
  \/ PauseEnd(w)
  \/ RequestMadeReset(w)
  \/ GotResponseErrorLoad(w)
  \/ GotResponseErrorStore(w)
  \/ HandleRetry(w)
  \/ ResetMaxRetry(w)

\* One step of download_url outside get.
DownloadStep(w) ==
  \/ DownloadUrlRecheck(w)
  \/ DownloadUrlExists(w)
  \/ SaveCreate(w)
  \/ SaveWrite(w)
  \/ CacheRegister(w)

\* The threads of a pool whose tasks fetch pages: find_all / find_all_tags
\* (scraper.py 311-312, 355-356) map make_soup_from_url, that is get, over
\* the links of a page.
Next == \E w \in Workers : (\E u \in Urls : GetEnter(w, u)) \/ GetStep(w)

Spec == FreshInit /\ [][Next]_vars

\* The threads of a pool whose tasks download: get_associated_files_and_
\* return_soup (line 845) and _scrape (line 455) map get_tag_rra and
\* get_link_tag, which call download_url(url, unique_if_query_params=True).
PoolNext ==
  \E w \in Workers :
    \/ \E u \in Urls : DownloadUrlEnter(w, u, TRUE, FALSE)
    \/ DownloadStep(w)
    \/ GetStep(w)

PoolSpec == FreshInit /\ [][PoolNext]_vars

\* One thread calling get and download_url, one call after the other.
SeqNext ==
  \/ \E u \in Urls : GetEnter(MainThread, u)
  \/ \E u \in Urls, uq \in BOOLEAN, ow \in BOOLEAN :
        DownloadUrlEnter(MainThread, u, uq, ow)
  \/ DownloadStep(MainThread)
  \/ GetStep(MainThread)

SeqSpec == Init /\ [][SeqNext]_vars

\* One step of authenticate, called by get.
AuthStep(w) ==
  \/ AuthenticateGet(w)
  \/ \E ok \in BOOLEAN : AuthenticatePost(w, ok)

\* A session with one configuration of the limiter.
SessionStart ==
  /\ budget = MaxBudget /\ avail = budget
  /\ max_retries = MaxRetriesCfg /\ retries = max_retries
  /\ paused = FALSE
  /\ WorkersInit
  /\ SessionInit
  /\ CrawlInit
  /\ OthersInit
  /\ cache = [q \in Queries |-> NoFile]
  /\ disk = [f \in FileNames |-> "absent"]

\* The calls that read and write the session's settings: the threads fetch
\* pages (of the site and of another one) and download them, and
\* credentials are set.
SessionNext ==
  \E w \in Workers :
    \/ \E u \in SessionUrls : GetEnter(w, u)
    \/ \E u \in SessionUrls : DownloadUrlEnter(w, u, TRUE, FALSE)
    \/ \E h \in Hosts \cup {NoOrigin} : SetAuthCredentials(w, h)
    \/ AuthStep(w)
    \/ DownloadStep(w)
    \/ GetStep(w)

SessionSpec == SessionStart /\ [][SessionNext]_vars

\* A session that scrapes into an empty base_storage_dir.
CrawlStart ==
  /\ budget = MaxBudget /\ avail = budget
  /\ max_retries = MaxRetriesCfg /\ retries = max_retries
  /\ paused = FALSE
  /\ WorkersInit
  /\ SessionInit
  /\ CrawlInit
  /\ OthersInit
  /\ cache = [q \in Queries |-> NoFile]
  /\ disk = [f \in AllFiles |-> "absent"]

\* _scrape(StartUrl, scrape_depth) and the tasks of its pools
CrawlNext ==
  \/ \E d \in 0..MaxDepth, k \in SliceSizes, tr \in BOOLEAN, sp \in StoragePaths,
        n \in {0, Len(LinkTags)} :
        ScrapeBegin(d, k, tr, sp, n)
  \/ \E s \in CrawlStatuses : ScrapeGet(s)
  \/ ScrapeStore
  \/ \E i \in DOMAIN rt, s \in CrawlStatuses : RootResource(i, s)
  \/ ScrapeSerialize
  \/ LinksDispatch
  \/ \E i \in Links, s \in CrawlStatuses : LinkDownload(i, s)
  \/ \E i \in Links, s \in CrawlStatuses : LinkResource(i, s)
  \/ \E i \in Links : LinkSerialize(i)
  \/ ScrapeSave
  \/ ScrapeResults

CrawlSpec == CrawlStart /\ [][CrawlNext]_vars

\* --------------------------------------------- the size of a thread pool
\* math.floor(math.log10(n)) for an integer n >= 1
RECURSIVE FloorLog10(_)
FloorLog10(n) == IF n < 10 THEN 0 ELSE 1 + FloorLog10(n \div 10)

\* __init__ line 144: `max(math.ceil(0.542 * no_of_requests_before_pause), 5)`
AutoPause(b) ==
  IF (542 * b + 999) \div 1000 > MinPause THEN (542 * b + 999) \div 1000
  ELSE MinPause

\* _get_suitable_no_threads (lines 357-363) for a limiter with budget b and
\* pause duration p and n items: the pool size, or the exception of the
\* division (line 360) or of log10 (line 361)
SuitableNoThreads(b, p, n) ==
  IF n <= 0 THEN [value |-> 0, raised |-> "ValueError"]
  ELSE IF b \div p = 0 THEN [value |-> 0, raised |-> "ZeroDivisionError"]
  ELSE IF n * (p \div (b \div p)) <= 0 THEN [value |-> 0, raised |-> "ValueError"]
  ELSE LET k == FloorLog10(n * (p \div (b \div p)))
           m == IF k < MaxNoOfThreads THEN k ELSE MaxNoOfThreads
       IN  [value |-> IF m > 0 THEN m ELSE 1, raised |-> "none"]

\* The pause durations given to the constructor: a number or "auto" (0)
PauseArgs == {0} \cup (MinPause..MaxPause)

\* BS4BaseScraper.__init__ (lines 143-160) and RequestLimitSetting.__init__
\* with a budget and a pause duration that __setattr__ (lines 66-69) accepts
Construct(b, p) ==
  /\ pool.pc = "none"
  /\ pool' = [pool EXCEPT !.pc = "ready", !.budget = b,
                          !.pause = IF p = 0 THEN AutoPause(b) ELSE p]
  /\ UNCHANGED <<core, found, jf, inst, rs, lvl>>

\* _get_suitable_no_threads(item_count)
GetSuitableNoThreads(n) ==
  /\ pool.pc = "ready"
  /\ pool' = [pool EXCEPT
        !.pc = "done", !.item_count = n,
        !.no_of_threads = SuitableNoThreads(pool.budget, pool.pause, n).value,
        !.raised = SuitableNoThreads(pool.budget, pool.pause, n).raised]
  /\ UNCHANGED <<core, found, jf, inst, rs, lvl>>

ThreadsNext ==
  \/ \E b \in 1..MaxRequestCount, p \in PauseArgs : Construct(b, p)
  \/ \E n \in 1..MaxItems : GetSuitableNoThreads(n)

\* A scraper is constructed and sizes one pool.
ThreadsSpec == SessionStart /\ [][ThreadsNext]_vars

\* ------------------------------------------------ find_all / find_all_tags
\* `count` when the caller gives none (Python's None)
NoCount == 0

\* soup.find_all(target, attrs, limit=count): the first `count` matches
Limit(tags, count) ==
  IF count = NoCount \/ count >= Len(tags) THEN tags ELSE SubSeq(tags, 1, count)

\* The <a> elements of a page as find_all('a') gives them: the page and the
\* position of the element
PageTags(page) == [i \in 1..Len(PageLinks(page)) |-> <<page, i>>]

\* scraper.py lines 350-353: get_link_tag(link_tag, download=False) gives the
\* resolved URL of every <a>; those with a host that contains the host of
\* base_url are kept. The pages they lead to, in document order.
InternalLinks(page) ==
  SelectSeq(PageLinks(page), LAMBDA href : IsInternal(SiteHost, href))

\* get_tag_rra(tag, download=False): the URL the attribute is resolved to
ResolvedUrl(href) ==
  IF IsScheme(Normalize(href)[1]) THEN Normalize(href)
  ELSE <<SiteHost>> \o Normalize(href)

NoTags == [raised |-> FALSE, items |-> <<>>]
Extend(r, t) == [raised |-> r.raised \/ t.raised, items |-> r.items \o t.items]

RECURSIVE FindAllTags(_, _, _, _)
RECURSIVE FindAllTagsOfLinks(_, _, _, _, _)
RECURSIVE FindAllTagsLoop(_, _, _, _)

\* find_all_tags (scraper.py 335-360) for the pages in `up` answering 200
\* and the others 404: the tags it returns, or `tags` is unbound at line 360
FindAllTags(page, depth, count, up) ==
  IF page \notin up THEN [raised |-> TRUE, items |-> <<>>]
  ELSE Extend([raised |-> FALSE, items |-> Limit(PageTags(page), count)],
              FindAllTagsLoop(page, depth, count, up))

\* lines 347-359: `while depth > 0`, one pass over the links per value of
\* depth, the calls of a pass being given the decremented depth
FindAllTagsLoop(page, depth, count, up) ==
  IF depth <= 0 THEN NoTags
  ELSE Extend(FindAllTagsOfLinks(page, 1, depth - 1, count, up),
              FindAllTagsLoop(page, depth - 1, count, up))

\* lines 355-359: the results of the calls for the links from the k-th on
FindAllTagsOfLinks(page, k, depth, count, up) ==
  IF k > Len(InternalLinks(page)) THEN NoTags
  ELSE Extend(FindAllTags(TargetOf(InternalLinks(page)[k]), depth, count, up),
              FindAllTagsOfLinks(page, k + 1, depth, count, up))

RECURSIVE FindAll(_, _, _, _)
RECURSIVE FindAllOfLinks(_, _, _, _, _)
RECURSIVE FindAllLoop(_, _, _, _)

\* find_all (scraper.py 284-318): the set of the URLs of the tags
FindAll(page, depth, count, up) ==
  IF page \notin up THEN {}
  ELSE {ResolvedUrl(PageLinks(page)[t[2]]) :
          t \in {Limit(PageTags(page), count)[i] :
                   i \in 1..Len(Limit(PageTags(page), count))}}
       \cup FindAllLoop(page, depth, count, up)

FindAllLoop(page, depth, count, up) ==
  IF depth <= 0 THEN {}
  ELSE FindAllOfLinks(page, 1, depth - 1, count, up)
       \cup FindAllLoop(page, depth - 1, count, up)

FindAllOfLinks(page, k, depth, count, up) ==
  IF k > Len(InternalLinks(page)) THEN {}
  ELSE FindAll(TargetOf(InternalLinks(page)[k]), depth, count, up)
       \cup FindAllOfLinks(page, k + 1, depth, count, up)

\* find_links (scraper.py 380): `self.find_all(url, target='a', depth=depth)`;
\* a `count` of the caller stays in **kwargs
FindLinks(page, depth, count, up) == FindAll(page, depth, NoCount, up)

\* find_all_tags(url, 'a', depth=d, count=c)
FindAllTagsCall(page, d, c, up) ==
  /\ found.pc = "none"
  /\ found' = [pc |-> "done", op |-> "find_all_tags", url |-> page,
               depth |-> d, count |-> c, up |-> up,
               size |-> Len(FindAllTags(page, d, c, up).items),
               raised |-> FindAllTags(page, d, c, up).raised]
  /\ UNCHANGED <<core, pool, jf, inst, rs, lvl>>

\* find_all(url, 'a', depth=d, count=c)
FindAllCall(page, d, c, up) ==
  /\ found.pc = "none"
  /\ found' = [pc |-> "done", op |-> "find_all", url |-> page,
               depth |-> d, count |-> c, up |-> up,
               size |-> Cardinality(FindAll(page, d, c, up)),
               raised |-> FALSE]
  /\ UNCHANGED <<core, pool, jf, inst, rs, lvl>>

\* find_links(url, depth=d, count=c)
FindLinksCall(page, d, c, up) ==
  /\ found.pc = "none"
  /\ found' = [pc |-> "done", op |-> "find_links", url |-> page,
               depth |-> d, count |-> c, up |-> up,
               size |-> Cardinality(FindLinks(page, d, c, up)),
               raised |-> FALSE]
  /\ UNCHANGED <<core, pool, jf, inst, rs, lvl>>

\* The scraper is used for another search.
FindReturn ==
  /\ found.pc = "done"
  /\ found' = NoFind
  /\ UNCHANGED <<core, pool, jf, inst, rs, lvl>>

FindNext ==
  \/ \E page \in Pages, d \in 0..MaxDepth, c \in 1..MaxCount, up \in SUBSET Pages :
        \/ FindAllTagsCall(page, d, c, up)
        \/ FindAllCall(page, d, c, up)
        \/ FindLinksCall(page, d, c, up)
  \/ FindReturn

\* One scraper searching the site, one search after the other.
FindSpec == SessionStart /\ [][FindNext]_vars

\* ------------------------------------------------- FileHandler and JSON
\* The keys of a Python dict: the strings "a", "b" and "1" and the integer 1
StrKey(v) == [type |-> "str", v |-> v]
IntKey(v) == [type |-> "int", v |-> v]
Keys == {StrKey("a"), StrKey("b"), StrKey("1"), IntKey("1")}
Values == {"x", "y"}

\* json.dumps writes every key as a string: str(1) is "1"
JsonKey(k) == k.v

\* The dicts given by a caller: no two keys of one dict are written as the
\* same JSON key.
Dicts ==
  UNION {[ks -> Values] :
           ks \in {K \in SUBSET Keys :
                     \A j, k \in K : JsonKey(j) = JsonKey(k) => j = k}}

\* The modes a caller gives to write_to_file: none ('a+'), 'w' and 'wb'
WriteModes == {"a+", "w", "wb"}
IsBinary(mode) == mode = "wb"

\* json.dumps(content) as json.load reads it: an object from the JSON keys.
\* Of two keys that are written alike, the one of `later` is the later one
\* in the dict and is the one that json.load keeps.
Dumps(content, later) ==
  [s \in {JsonKey(k) : k \in DOMAIN content} |->
     IF \E k \in DOMAIN content \cap later : JsonKey(k) = s
       THEN content[CHOOSE k \in DOMAIN content \cap later : JsonKey(k) = s]
       ELSE content[CHOOSE k \in DOMAIN content : JsonKey(k) = s]]

\* json.load (line 272): the dict of a JSON object; its keys are strings
Loads(obj) == [k \in {StrKey(s) : s \in DOMAIN obj} |-> obj[k.v]]

\* An update in which the keys that are there keep their values.
UpdateDictKeepOld(file_cnt, content) ==
  [k \in DOMAIN file_cnt \cup DOMAIN content |->
     IF k \in DOMAIN file_cnt THEN file_cnt[k] ELSE content[k]]

\* update_json line 306: `file_cnt.update(content)`
UpdateDict(file_cnt, content) ==
  [k \in DOMAIN file_cnt \cup DOMAIN content |->
     IF k \in DOMAIN content THEN content[k] ELSE file_cnt[k]]

\* write_to_file(content, write_mode) on a JSON file (lines 249-255 and
\* _write_json): clear_file empties the file, then the text is written;
\* writing the text to a file opened in a binary mode raises (FileError).
WriteToFile(content, mode) ==
  /\ jf' = [text |-> ~IsBinary(mode),
            obj |-> IF IsBinary(mode) THEN <<>> ELSE Dumps(content, {}),
            called |-> TRUE,
            plain |-> /\ ~IsBinary(mode)
                      /\ \A k \in DOMAIN content : k.type = "str",
            expected |-> content]
  /\ UNCHANGED <<core, pool, found, inst, rs, lvl>>

\* update_json(content) (lines 301-307): the dict of the file, or {} when
\* the file cannot be read, is updated and written in mode 'w'.
UpdateJson(content) ==
  /\ jf' = [text |-> TRUE,
            obj |-> Dumps(UpdateDict(IF jf.text THEN Loads(jf.obj) ELSE <<>>,
                                     content),
                          DOMAIN content),
            called |-> TRUE,
            plain |-> /\ jf.plain
                      /\ \A k \in DOMAIN content : k.type = "str",
            expected |-> [k \in DOMAIN jf.expected \cup DOMAIN content |->
                            IF k \in DOMAIN content THEN content[k]
                            ELSE jf.expected[k]]]
  /\ UNCHANGED <<core, pool, found, inst, rs, lvl>>

JsonNext ==
  \/ \E content \in Dicts, mode \in WriteModes : WriteToFile(content, mode)
  \/ \E content \in Dicts : UpdateJson(content)

\* One FileHandler of a new JSON file, written and updated.
JsonSpec == SessionStart /\ [][JsonNext]_vars

\* ------------------------------------------------ two scraper instances
\* self.url_query_params / self._session: the attribute of the instance when
\* it has one, the class attribute otherwise
ParamsOf(i) == IF inst.own[i] THEN i ELSE ClassLevel
SessionOf(i) == inst.session[i]

\* download_url for a URL with the query string q that answers 200 (lines
\* 780-782 and 804-808): the FileHandler of the dict is returned if there is
\* one, else the file is saved and registered in the dict.
DownloadQuery(i, q) ==
  /\ inst' = [inst EXCEPT
        !.base_url[i] = SiteHost,
        !.params[ParamsOf(i)][q] =
           IF @ # NoInstance THEN @ ELSE i,
        !.ret[i] =
           IF inst.params[ParamsOf(i)][q] # NoInstance
             THEN inst.params[ParamsOf(i)][q] ELSE i]
  /\ UNCHANGED <<core, pool, found, jf, rs, lvl>>

\* authenticate (lines 539-543) with a login that succeeds: the session
\* object keeps the cookies of the login.
Authenticate(i) ==
  /\ inst' = [inst EXCEPT
        !.base_url[i] = SiteHost,
        !.cookies[SessionOf(i)] = @ \cup {i},
        !.is_authenticated[i] = TRUE]
  /\ UNCHANGED <<core, pool, found, jf, rs, lvl>>

\* reset (lines 213-234): the instance gets attributes of its own;
\* close_session clears the cookies of the session object it used.
Reset(i) ==
  /\ inst' = [inst EXCEPT
        !.base_url[i] = NoOrigin,
        !.is_authenticated[i] = FALSE,
        !.own[i] = TRUE,
        !.params[i] = [q \in SessionQueries |-> NoInstance],
        !.cookies = [@ EXCEPT ![SessionOf(i)] = {}, ![i] = {}],
        !.session[i] = i,
        !.ret[i] = NoInstance]
  /\ UNCHANGED <<core, pool, found, jf, rs, lvl>>

InstancesNext ==
  \E i \in Instances :
    \/ \E q \in SessionQueries : DownloadQuery(i, q)
    \/ Authenticate(i)
    \/ Reset(i)

\* Two scrapers constructed one after the other in one process.
InstancesSpec == SessionStart /\ [][InstancesNext]_vars

\* ------------------------------------------------ resolving a reference
\* A reference is the sequence of the parts that its "/" separate, as an
\* href is; so is the URL it is resolved to. The references of a page:
\* b.html, /b.html, ../b.html, ./b.html, c/b.html, c/../b.html,
\* https://site/b.html, http://site/b.html, https://evil/b.html and
\* //evil/b.html.
Rras ==
  { << <<"b.html">> >>,
    Rel("b.html"),
    << <<"..">>, <<"b.html">> >>,
    << <<".">>, <<"b.html">> >>,
    << <<"c">>, <<"b.html">> >>,
    << <<"c">>, <<"..">>, <<"b.html">> >>,
    Abs(SiteHost, "b.html"),
    << <<"http:">>, <<>>, SiteHost, <<"b.html">> >>,
    Abs(EvilHost, "b.html"),
    << <<>>, <<>>, EvilHost, <<"b.html">> >> }

\* The paths of the URLs of the pages that hold the reference:
\* https://site, https://site/a and https://site/a/index.html
PagePaths == { <<>>, << <<"a">> >>, << <<"a">>, <<"index.html">> >> }

\* The scheme of the URL of the site
SiteScheme == <<"https:">>
NoScheme == <<>>

\* The reference begins with "//"
StartsWithSlashes(rra) == Len(rra) >= 2 /\ rra[1] = <<>> /\ rra[2] = <<>>

\* get_tag_rra line 908: `tag_src.replace('..', '').replace('./', '/')`
Blanked(rra) ==
  [i \in 1..Len(rra) |-> IF rra[i] \in {<<"..">>, <<".">>} THEN <<>> ELSE rra[i]]

\* get_tag_rra lines 907-910: after line 908, a tag_src that starts with
\* "//" has every "//" made "/"
TagSrc(rra) ==
  IF StartsWithSlashes(Blanked(rra))
    THEN << <<>> >> \o Normalize(Blanked(rra))
    ELSE Blanked(rra)

\* urljoin removes the dot segments of the path: "." is dropped, ".." drops
\* the segment before it, if there is one.
RECURSIVE RemoveDots(_, _)
RemoveDots(kept, rest) ==
  IF rest = <<>> THEN kept
  ELSE IF Head(rest) = <<".">> THEN RemoveDots(kept, Tail(rest))
  ELSE IF Head(rest) = <<"..">>
         THEN RemoveDots(SubSeq(kept, 1, Len(kept) - 1), Tail(rest))
  ELSE RemoveDots(Append(kept, Head(rest)), Tail(rest))

\* urljoin(self.base_url, ref) for a base URL that is an origin and a
\* reference without scheme and host
UrlJoin(base, ref) == << SiteScheme, <<>>, base >> \o RemoveDots(<<>>, ref)

\* get_actual_url_from_rra lines 871-879: the rra is normalized; with a
\* scheme it is the URL, otherwise it is joined to base_url.
ActualUrl(base, rra) ==
  IF Normalize(rra) # <<>> /\ IsScheme(Normalize(rra)[1])
    THEN Normalize(rra)
    ELSE UrlJoin(base, Normalize(rra))

\* parse_url(url).scheme
ParsedScheme(url) == IF url # <<>> /\ IsScheme(url[1]) THEN url[1] ELSE NoScheme

\* get_link_tag line 942 / get_tag_rra line 911 is reached for a reference
\* of a page of the site; get (line 568) has set base_url to its origin.
ResolveCall(op, page, rra) ==
  /\ rs.pc # "called"
  /\ rs' = [pc |-> "called", op |-> op, page |-> page, rra |-> rra, url |-> <<>>]
  /\ UNCHANGED <<core, pool, found, jf, inst, lvl>>

\* get_link_tag lines 942-943 / get_tag_rra lines 907-912: actual_url
ResolveReturn ==
  /\ rs.pc = "called"
  /\ rs' = [rs EXCEPT
        !.pc = "done",
        !.url = IF rs.op = "get_tag_rra" THEN ActualUrl(SiteHost, TagSrc(rs.rra))
                ELSE ActualUrl(SiteHost, rs.rra)]
  /\ UNCHANGED <<core, pool, found, jf, inst, lvl>>

ResolveNext ==
  \/ \E op \in {"get_link_tag", "get_tag_rra"}, page \in PagePaths, rra \in Rras :
        ResolveCall(op, page, rra)
  \/ ResolveReturn

\* The references of the pages of a site are resolved.
ResolveSpec == SessionStart /\ [][ResolveNext]_vars

\* ------------------------------------------------- the pool of one level
\* _scrape lines 452-455 after _get_suitable_no_threads has returned: the
\* `with ThreadPoolExecutor()` block is entered with no task submitted.
LevelEnter ==
  /\ lvl.pc = "none"
  /\ pool.pc = "done" /\ pool.raised = "none"
  /\ pool.item_count <= MaxTasks
  /\ lvl' = [lvl EXCEPT !.pc = "submit"]
  /\ UNCHANGED <<core, pool, found, jf, inst, rs>>

\* utils.slice_iterable(link_tags, no_of_threads)[k]: the links of the
\* slice that begins at link `first`
SliceFrom(first, size, count) ==
  {i \in 1..count : first <= i /\ i < first + size}

\* lines 454-455, one turn of the for loop: executor.map submits every link
\* of the slice and returns; after the last slice the `with` block ends.
SubmitSlice ==
  /\ lvl.pc = "submit"
  /\ IF lvl.next <= pool.item_count
       THEN lvl' = [lvl EXCEPT
              !.next = @ + pool.no_of_threads,
              !.task = [i \in 1..MaxTasks |->
                          IF i \in SliceFrom(lvl.next, pool.no_of_threads,
                                             pool.item_count)
                            THEN "queued" ELSE lvl.task[i]]]
       ELSE lvl' = [lvl EXCEPT !.pc = "exit"]
  /\ UNCHANGED <<core, pool, found, jf, inst, rs>>

\* The tasks that a thread of the executor is running
Running == {i \in 1..MaxTasks : lvl.task[i] = "running"}

\* A thread of the executor takes a submitted task: the executor starts a
\* thread for it while it has fewer than its max_workers.
TaskStart(i) ==
  /\ lvl.task[i] = "queued"
  /\ Cardinality(Running) < MinDefaultWorkers
  /\ lvl' = [lvl EXCEPT !.task[i] = "running"]
  /\ UNCHANGED <<core, pool, found, jf, inst, rs>>

\* get_link_tag returns in its thread
TaskEnd(i) ==
  /\ lvl.task[i] = "running"
  /\ lvl' = [lvl EXCEPT !.task[i] = "done"]
  /\ UNCHANGED <<core, pool, found, jf, inst, rs>>

\* The `with` block is left: shutdown(wait=True) has waited for every task.
LevelExit ==
  /\ lvl.pc = "exit"
  /\ \A i \in 1..MaxTasks : lvl.task[i] \in {"none", "done"}
  /\ lvl' = [lvl EXCEPT !.pc = "joined"]
  /\ UNCHANGED <<core, pool, found, jf, inst, rs>>

LevelNext ==
  \/ ThreadsNext
  \/ LevelEnter
  \/ SubmitSlice
  \/ \E i \in 1..MaxTasks : TaskStart(i)
  \/ \E i \in 1..MaxTasks : TaskEnd(i)
  \/ LevelExit

\* A scraper is constructed, sizes the pool of a level and runs it.
LevelSpec == SessionStart /\ [][LevelNext]_vars


\* ------------------------------------------------------------- the claims
Main == th[MainThread]

\* The thread is inside request_made with the count used up: it is about to
\* pause, pausing, or about to reset the count.
Pausing(w) == th[w].pc \in {"rm_cmp", "p_begin", "p_sleep", "rm_reset"}

\* The running download_url of the thread got an OK response from its get.
Downloaded(w) ==
  /\ th[w].call = "download_url"
  /\ th[w].response # NoResponse

SameQuery(v, w) ==
  /\ th[v].call = "download_url" /\ th[w].call = "download_url"
  /\ th[v].url.query # NoQuery
  /\ th[v].url.query = th[w].url.query

Returned(w) == th[w].pc = "done"

\* C1: threads that call download_url concurrently for URLs with the same
\* query string cause one download only, and the calls that return a
\* FileHandler return the same one.
C1_OneDownloadPerQuery ==
  \A v, w \in Workers :
    (v # w /\ SameQuery(v, w)) =>
       /\ ~(Downloaded(v) /\ Downloaded(w))
       /\ (Returned(v) /\ Returned(w) /\ th[v].ret # NoFile /\ th[w].ret # NoFile)
             => th[v].ret = th[w].ret

\* C2: one caller, budget B. The count goes down by one per request; the
\* B-th request since the last reset, and no other, makes its caller pause
\* (requests_paused is set exactly while that caller sleeps in pause), and
\* once the pause is over the count is B again.
C2_PauseAfterBudget ==
  /\ paused <=> Main.pc = "p_sleep"
  /\ Main.pc \in {"p_begin", "p_sleep", "rm_reset"} => avail = 0
  /\ Main.pc = "p_begin" => window = budget
  /\ window = budget => Main.pc \in {"rm_load", "rm_store", "rm_cmp", "p_begin"}
  /\ Main.pc \in {"rm_load", "rm_store"} => avail = budget - window + 1
  /\ Main.pc \notin {"rm_load", "rm_store", "p_sleep", "rm_reset"}
        => avail = budget - window

\* C2 witness: with the largest budget, the budget-th request was made, the
\* pause is over and the count is the budget again.
C2_Witness ==
  /\ budget = MaxBudget
  /\ calls = MaxBudget
  /\ Main.pc = "done" /\ Main.response = StatusOK
  /\ window = 0 /\ avail = budget /\ ~paused

\* C3: no_of_available_request is never negative.
C3_RemainingNeverNegative == avail >= 0

\* C4: the count is never zero or less unless a thread is pausing or about
\* to reset it.
C4_ExhaustionIsHandled == avail <= 0 => \E w \in Workers : Pausing(w)

\* C5: no thread sends a GET while requests_paused is set.
C5_NoGetWhilePaused ==
  [][\A w \in Workers :
       (th[w].pc = "g_send" /\ th'[w].pc = "rm_load") => ~paused]_vars

\* C6: at most `budget` GETs are sent before the first pause and between two
\* pauses.
C6_AtMostBudgetPerWindow == window <= budget

\* C7: one caller, a get that begins with every retry left and gets a 429
\* to every GET: before each GET the retries left are max_retries minus the
\* GETs sent; the get gives up after exactly max_retries GETs, returns None,
\* and leaves no_of_available_retries at max_retries.
C7_RetriesCountDown ==
  (Main.fullstart /\ Main.pc \in {"g_check", "g_send"})
     => /\ Main.attempts < max_retries
        /\ retries = max_retries - Main.attempts

C7_RetryExhaustion ==
  /\ []C7_RetriesCountDown
  /\ [][(Main.pc = "hr_reset" /\ Main.fullstart /\ Main' # Main)
          => /\ Main.attempts = max_retries
             /\ Main.resp = StatusTooMany
             /\ Main'.pc = "done"
             /\ Main'.response = NoResponse
             /\ retries' = max_retries]_vars

\* The GETs of a get that is answered 429 every time: the first GET is sent
\* whatever max_retries is.
AttemptsFor(n) == IF n > 1 THEN n ELSE 1

C7_AttemptsCountDown ==
  (Main.fullstart /\ Main.pc \in {"g_check", "g_send"})
     => /\ Main.attempts < AttemptsFor(max_retries)
        /\ retries = max_retries - Main.attempts

\* C7 (amended): one caller, a get that begins with every retry left and
\* gets a 429 to every GET sends exactly max(1, max_retries) GETs, the
\* retries left before each GET being max_retries minus the GETs sent; it
\* then returns None and leaves no_of_available_retries at max_retries.
C7_RetryExhaustionAtLeastOnce ==
  /\ []C7_AttemptsCountDown
  /\ [][(Main.pc = "hr_reset" /\ Main.fullstart /\ Main' # Main)
          => /\ Main.attempts = AttemptsFor(max_retries)
             /\ Main.resp = StatusTooMany
             /\ Main'.pc = "done"
             /\ Main'.response = NoResponse
             /\ retries' = max_retries]_vars

\* C7 witness: the get is about to give up after max_retries GETs, all
\* answered 429, with the largest max_retries.
C7_Witness ==
  /\ max_retries = MaxRetriesCfg
  /\ Main.pc = "hr_reset" /\ Main.fullstart
  /\ Main.attempts = max_retries

\* C8: a 403 or 404 ends the get at once, and handling it leaves
\* no_of_available_retries as it was.
C8_FatalIsImmediateStale ==
  [][(Main.resp \in {StatusForbidden, StatusNotFound} /\ Main' # Main)
       => /\ retries' = retries
          /\ Main'.pc \notin {"g_check", "g_send"}]_vars

\* C9: when no get is running, no_of_available_retries is max_retries.
C9_RetriesRestored ==
  (\A w \in Workers : th[w].pc \in {"idle", "done"}) => retries = max_retries

\* C10: get returns None or a response whose status is OK; a response that
\* is not OK is never returned.
C10_OkOrNone ==
  \A w \in Workers :
    /\ th[w].response = NoResponse \/ Ok(th[w].response)
    /\ th[w].pc \in {"dl_save", "dl_write", "dl_register"}
          => th[w].response # NoResponse

\* C10 witness: a get that was answered with an error has returned None
\* while another has returned its OK response.
C10_Witness ==
  \E v, w \in Workers :
    /\ th[v].pc = "done" /\ th[v].call = "get" /\ th[v].response = NoResponse
    /\ retries < max_retries
    /\ th[w].pc = "done" /\ th[w].response = StatusOK

\* C13: once base_url is set it keeps its value: no fetch, download or
\* setting of credentials changes it.
C13_OriginSetOnce ==
  [][base_url # NoOrigin => base_url' = base_url]_vars

\* C18: the credentials are POSTed to the auth URL at most once in a session.
C18_AuthenticatesOnce == handshakes <= 1

\* C19: a call that stores an auth URL stores one whose host contains the
\* host of the base URL the session had before the call, and leaves that
\* base URL as it was.
C19_UnrelatedAuthUrlRejected ==
  [][(base_url # NoOrigin /\ auth_url' # auth_url)
        => (HostIn(base_url, auth_url') /\ base_url' = base_url)]_vars

\* C14: two threads that download the same page (a URL without a query
\* string) do not both fetch it.
C14_PageFetchedOnce ==
  \A v, w \in Workers :
    (/\ v # w
     /\ th[v].call = "download_url" /\ th[w].call = "download_url"
     /\ th[v].url = th[w].url /\ th[v].url.query = NoQuery)
       => ~(Downloaded(v) /\ Downloaded(w))

C16_FirstWriterWins ==
  [][\A q \in Queries : cache[q] # NoFile => cache'[q] = cache[q]]_vars

\* The finished download_url of the one caller found its query string in
\* url_query_params when it began.
ServedFromCache ==
  /\ Main.url.query # NoQuery
  /\ cache[Main.url.query] # NoFile
  /\ Main.response = NoResponse

\* The finished download_url of the one caller found its file on disk and
\* fetched nothing.
FoundOnDisk ==
  /\ Main.call = "download_url" /\ Main.pc = "done"
  /\ disk[Main.fname] # "absent"
  /\ Main.response = NoResponse

C17_UncachedExistingFileIsKept ==
  /\ (FoundOnDisk /\ ~Main.ovw /\ ~ServedFromCache) => Main.ret = Main.fname
  /\ (Main.call = "download_url" /\ Main.pc = "done" /\ Main.ovw
         /\ Main.ret # NoFile /\ ~ServedFromCache) => Main.response # NoResponse

IntendedHost(href) == IF IsScheme(href[1]) THEN ParsedHost(href) ELSE SiteHost

\* The pages of the site that the <a> elements of a page point to
LinkedPages(page) ==
  {PageLinks(page)[i][Len(PageLinks(page)[i])][1] :
     i \in {j \in 1..Len(PageLinks(page)) :
              IntendedHost(PageLinks(page)[j]) = SiteHost}}

\* The pages within n links of the start page
RECURSIVE Within(_)
Within(n) ==
  IF n = 0 THEN {"root"}
  ELSE Within(n - 1) \cup UNION {LinkedPages(p) : p \in Within(n - 1)}

\* The traversal level of a page: its distance from the start page
Level(p) == CHOOSE n \in 0..Cardinality(Pages) :
              p \in Within(n) /\ \A m \in 0..(n - 1) : p \notin Within(m)

\* C11: _scrape(url, D) fetches no page of a level above D; with D = 0 it
\* fetches the start page once and its resources, and follows no link.
C11_DepthBound ==
  /\ \A p \in Pages : pagefetch[p] > 0 => Level(p) <= cr.requested
  /\ cr.requested = 0
       => /\ pagefetch["root"] <= 1
          /\ \A i \in Links : lt[i].pc = "wait"
  /\ (cr.requested = 0 /\ cr.pc = "done")
       => /\ pagefetch["root"] = 1
          /\ \A i \in DOMAIN rt : rt[i] = "done"

\* C11 witness: a _scrape of depth 1 has ended; the page of level 1 was
\* fetched, the page of level 2 was not.
C11_Witness ==
  /\ cr.requested = 1 /\ cr.pc = "done"
  /\ pagefetch["root"] = 1 /\ pagefetch["a"] = 1 /\ pagefetch["b"] = 0

\* C12: an <a> element is downloaded exactly when the URL it points to is
\* on the host of the site.
C12_SameOriginLinksFetched ==
  \A i \in Links :
    lt[i].pc = "done"
      => (lt[i].result # "url" <=> HostIn(SiteHost, IntendedHost(LinkTags[i])))

C20_WritesPerPass ==
  /\ cr.pc \in {"s_get", "s_store", "s_res"} => serial["root"] = 0
  /\ cr.pc \in {"s_links", "s_join", "s_results", "done"}
       => serial["root"] = 1 + cr.level
  /\ \A p \in Pages \ {"root"} :
       serial[p] <= cr.level + (IF cr.pc = "s_join" THEN 1 ELSE 0)

C30_PoolSizeInRange ==
  pool.pc = "done"
    => /\ pool.raised = "none"
       /\ pool.no_of_threads \in 1..MaxNoOfThreads

\* C26: find_all_tags, find_all and find_links called with count = c return
\* at most c items, whatever the depth.
C26_AtMostCount ==
  (found.pc = "done" /\ ~found.raised) => found.size <= found.count

C25_InstancesShareNothing ==
  \A i \in Instances :
    /\ inst.ret[i] \in {NoInstance, i}
    /\ inst.cookies[SessionOf(i)] \subseteq {i}
    /\ inst.is_authenticated[i] => i \in inst.cookies[SessionOf(i)]

\* C29: within the start page an element is handed to at most one worker of
\* the pool, even when it matches several scrapable tags: no two tasks of
\* the pool that have run were given the same element.
C29_ElementsDispatchedOnce ==
  \A i, j \in DOMAIN rt :
    (i # j /\ rt[i] = "done" /\ rt[j] = "done")
      => Tags("root")[i] # Tags("root")[j]

\* C21: with a target language set, the markup of a page is translated only
\* after its attributes were rewritten, at the final write of the page: no
\* markup is translated before it is rewritten, and a page whose patched
\* markup was written is a page whose patched markup was translated.
C21_TranslatedAfterRewrite ==
  \A p \in Pages :
    /\ translated[p] # "raw"
    /\ (cr.translate_to /\ serial[p] > 0) => translated[p] = "patched"

\* A path that begins at the root of the file system: base_storage_dir is
\* absolute (line 154), and so is every path that begins with it.
IsAbsPath(path) == path # <<>> /\ path[1] = BaseDir[1]

C23_LocalFailureSkipped ==
  (cr.pc = "failed" /\ serial["root"] > 0) => raised # "ConnectionError"

\* C24: _scrape returns normally whenever the start page was fetched: a
\* _scrape that ended with an exception is one that never wrote its start
\* page.
C24_ReturnsNormally ==
  cr.pc = "failed" => serial["root"] = 0

\* C28: with scrape_depth >= 2 the links of every page mirrored at one level
\* are traversed at the next: when _scrape has ended, every page that a
\* mirrored page of level 1 links to was fetched.
C28_NextLevelIsEveryPage ==
  (cr.pc \in {"done", "failed"} /\ cr.requested >= 2)
    => \A p \in Pages \ {"root"} :
         serial[p] > 0 => \A q \in LinkedPages(p) : pagefetch[q] > 0

\* C37: a download_url that finds its file on disk and returns it without
\* a fetch returns a file with the whole content of a finished download,
\* never the empty file that another thread has created and not yet
\* written.
C37_ExistingFileIsComplete ==
  [][\A w \in Workers :
       (/\ th[w].pc = "dl_exists"
        /\ th'[w].pc = "done"
        /\ th'[w].ret = th[w].fname)
         => disk[th[w].fname] = "data"]_vars

\* C38: one caller. A download_url with overwrite that found its file on
\* disk and whose fetch ended stale leaves the file in place with its
\* content.
C38_FailedOverwriteKeepsFile ==
  (/\ Main.call = "download_url" /\ Main.pc = "done"
   /\ Main.ovw /\ Main.had
   /\ Main.response = NoResponse)
     => disk[Main.fname] = "data"

\* The reference has a scheme and a host of its own.
HasSchemeAndHost(rra) ==
  Len(rra) >= 3 /\ IsScheme(rra[1]) /\ rra[2] = <<>> /\ rra[3] # <<>>

\* C32: the URL that a reference is resolved to has a scheme and a host,
\* and a reference that has both already is returned as it is.
C32_ResolvedIsQualified ==
  rs.pc = "done"
    => /\ ParsedScheme(rs.url) # NoScheme
       /\ ParsedHost(rs.url) # NoOrigin
       /\ HasSchemeAndHost(rs.rra) => rs.url = rs.rra

\* RFC 3986, 5.2: a reference without scheme and host is merged with the
\* path of the URL of its page - the path up to its last "/" - unless it
\* begins with "/", and the dot segments are removed.
Rfc3986(page, rra) ==
  << SiteScheme, <<>>, SiteHost >> \o
    (IF rra[1] = <<>> THEN RemoveDots(<<>>, Tail(rra))
     ELSE RemoveDots(<<>>, SubSeq(page, 1, Len(page) - 1) \o rra))

\* C33: a reference without scheme and host is resolved against the URL of
\* the page that holds it: b.html on https://site/a/index.html is
\* https://site/a/b.html.
C33_RelativeToPage ==
  (rs.pc = "done" /\ ParsedScheme(rs.rra) = NoScheme /\ ~StartsWithSlashes(rs.rra))
    => rs.url = Rfc3986(rs.page, rs.rra)

\* C31: at any moment the tasks that the threads of the pool of a level are
\* running are at most as many as _get_suitable_no_threads computed.
C31_AtMostPoolSizeRunning ==
  lvl.pc # "none" => Cardinality(Running) <= pool.no_of_threads

\* C34: a link whose download ended with get returning None has no file
\* written for its target, keeps its href, and is not handed to the pool
\* of the next level.
C34_StaleLinkDropped ==
  \A i \in Links :
    lt[i].fetch = "stale"
      => /\ ~Exists(FileOf(TargetOf(LinkTags[i])))
         /\ hrefs[i] = LinkTags[i]
         /\ lt[i].pc # "todo"

\* The URL that the reference is resolved to is not of the origin of the
\* site.
NotSameOrigin(rra) == ActualHost(Origin(StartUrl), rra) # Origin(StartUrl)

\* C35: an element of the start page whose resolved URL is not of the
\* origin of the site keeps its attribute, and the task of the pool that
\* handles it sends no request and writes no file.
C35_ExternalElementUntouched ==
  /\ [](\A e \in DOMAIN srcs :
          NotSameOrigin(Elements("root")[e].rra) => srcs[e] = NoPath)
  /\ [][\A i \in DOMAIN rt :
          (/\ cr.pc = "s_res" /\ rt[i] = "todo" /\ rt'[i] = "done"
           /\ NotSameOrigin(ResourceTags("root")[i]))
            => /\ disk' = disk
               /\ avail' = avail /\ retries' = retries /\ window' = window]_vars

\* A scrape has returned with the image of the site rewritten and the image
\* of the other site as it was.
C35_Witness ==
  /\ cr.pc = "done"
  /\ NotSameOrigin(Elements("root")[3].rra)
  /\ srcs[2] # NoPath
  /\ srcs[3] = NoPath

C39_NoAnchorsCompletes ==
  (cr.anchors = 0 /\ cr.requested >= 1 /\ serial["root"] > 0) => cr.pc # "failed"

\* C40: no step of a scrape changes storage_path or markup_filename, so
\* every scrape of the scraper writes its start page to the same file.
C40_StoragePathKept ==
  [][cr.pc # "idle"
       => /\ cr'.storage_path = cr.storage_path
          /\ cr'.markup_filename = cr.markup_filename]_vars

\* A scraper made with storage_path "sub" has scraped two levels, iterating
\* the results of the first, and its second scrape has written the start
\* page again and returned.
C40_Witness ==
  /\ cr.scrapes = 2 /\ cr.pc = "done"
  /\ cr.level_reached = 2 /\ cr.requested = 0
  /\ serial["root"] = 1
  /\ cr.storage_path = <<"sub">> /\ cr.markup_filename = DefaultMarkupFilename
====
